---- MODULE Spec2Model ----
(***************************************************************************)
(* Model of src/app.py (the Streamlit page of the Audio Vocoder) and of    *)
(* src/utils/visualization.py.  One behaviour is one script run of main(), *)
(* a walk through main's statements, one action per statement, started     *)
(* with an empty scratch directory.  The collaborators app.py imports that *)
(* are not part of the sources at hand (audio_processor, utils.file_utils, *)
(* config, and the plotting functions visualization.py does not define)    *)
(* are modelled by their contract.                                         *)
(***************************************************************************)
EXTENDS Integers, Sequences, FiniteSets, TLC

\* ---------------------------------------------------------------- bounds
MaxLen == 2          \* longest decoded input, in samples

\* ------------------------------------------------------------- constants
MAX_FILE_SIZE == 1   \* config.Config.MAX_FILE_SIZE, scaled

SampleValues == {0, 1}
SampleRates == {2, 4}
FileTypes == {"wav", "mp3"}

\* Exception classes: the two the handlers name, and one that is a
\* subclass of neither (ZeroDivisionError, OverflowError, KeyError ...).
ExcTypes == {"IOError", "ValueError", "ArithmeticError"}

\* ---------------------------------------------------------------- values
NoVal == [kind |-> "none", id |-> 0]
Path(n) == [kind |-> "path", id |-> n]
Buffer(n) == [kind |-> "buffer", id |-> n]

NoFile == [present |-> FALSE, size |-> 0, type |-> "wav", ok |-> FALSE,
           samples |-> <<>>, sr |-> 0]
NoContent == [ok |-> FALSE, samples |-> <<>>, sr |-> 0]
NoParams == [key |-> "none", value |-> 0]
NoComparison == [original |-> NoVal, processed |-> NoVal, sr |-> 0,
                 title |-> "none"]

SeqsUpTo(n) == UNION {[1..k -> SampleValues] : k \in 0..n}

\* What the browser can hand to st.file_uploader: a size in bytes, one of
\* the accepted types, and bytes that decode to audio or do not.
Uploads ==
    {[present |-> TRUE, size |-> sz, type |-> ty, ok |-> TRUE,
      samples |-> s, sr |-> r] :
        sz \in 0..(MAX_FILE_SIZE + 1), ty \in FileTypes,
        s \in SeqsUpTo(MaxLen), r \in SampleRates}
    \cup
    {[present |-> TRUE, size |-> sz, type |-> ty, ok |-> FALSE,
      samples |-> <<>>, sr |-> 0] :
        sz \in 0..(MAX_FILE_SIZE + 1), ty \in FileTypes}

VARIABLES pc, uploaded_file, fs, heap, input_path, original_audio,
          sample_rate, selected_effect, params, processed_audio,
          processed_sr, output_path, comparison, exc, escaped, errors, log

vars == <<pc, uploaded_file, fs, heap, input_path, original_audio,
          sample_rate, selected_effect, params, processed_audio,
          processed_sr, output_path, comparison, exc, escaped, errors, log>>

locals == <<input_path, original_audio, sample_rate, selected_effect, params,
            processed_audio, processed_sr, output_path, comparison>>

Call(op, arg, ok) == [op |-> op, arg |-> arg, ok |-> ok]

\* -------------------------------------------------------- names (imports)
\* from utils.visualization import ( ... )
Imported ==
    {"plot_audio_waveform", "plot_spectrogram", "plot_frequency_spectrum",
     "plot_comparison", "plot_spectrogram_comparison",
     "plot_frequency_spectrum_comparison", "plot_comprehensive_comparison"}

\* the functions utils/visualization.py defines
VisualizationDefs ==
    {"plot_audio_waveform", "plot_spectrogram", "plot_comparison"}


\* ------------------------------------------------------------ file system
FreshPath(f) ==
    CHOOSE n \in 1..(Cardinality(DOMAIN f) + 1) :
        /\ n \notin DOMAIN f
        /\ \A m \in 1..(n - 1) : m \in DOMAIN f

Exists(f, p) == p.kind = "path" /\ p.id \in DOMAIN f

\* utils.file_utils.save_uploaded_file: writes the upload to a scratch file
save_uploaded_file(f, file) ==
    (FreshPath(f) :> [ok |-> file.ok, samples |-> file.samples,
                      sr |-> file.sr]) @@ f

RECURSIVE cleanup_temp_files(_, _)
\* utils.file_utils.cleanup_temp_files: deletes the listed files that exist
cleanup_temp_files(f, paths) ==
    IF paths = <<>> THEN f
    ELSE LET p == Head(paths)
             g == IF Exists(f, p)
                  THEN [q \in DOMAIN f \ {p.id} |-> f[q]]
                  ELSE f
         IN cleanup_temp_files(g, Tail(paths))

\* ----------------------------------------------------------------- engine
Registry == {"robot", "pitch", "speed", "echo"}

\* effect.get_parameter_widgets(): the values the controls can return
ParamWidgets(eff) ==
    CASE eff = "robot" -> {[key |-> "depth", value |-> v] : v \in {0, 1}}
      [] eff = "pitch" -> {[key |-> "semitones", value |-> v] : v \in {0, 12}}
      [] eff = "speed" -> {[key |-> "speed_factor", value |-> v] : v \in {1, 2}}
      [] eff = "echo" -> {[key |-> "delay_samples", value |-> v] : v \in {1, 2}}
      [] OTHER -> {}

Carrier(i) == IF i % 2 = 1 THEN 1 ELSE -1

\* 4.1: amplitude modulation by (1 - depth) + depth * carrier
RobotEffect(s, depth) ==
    [i \in 1..Len(s) |-> s[i] * ((1 - depth) + depth * Carrier(i))]

\* 4.2: same length; ratio 2^(semitones/12); identity at 0 semitones
PitchShiftEffect(s, semitones) ==
    LET r == IF semitones = 0 THEN 1 ELSE 2
    IN [i \in 1..Len(s) |-> s[(((i - 1) * r) % Len(s)) + 1]]

\* round(n / f), halves to even
RoundDiv(n, f) ==
    LET q == n \div f
        r == n % f
    IN IF 2 * r < f THEN q
       ELSE IF 2 * r > f THEN q + 1
       ELSE IF q % 2 = 0 THEN q ELSE q + 1

Min(a, b) == IF a < b THEN a ELSE b

\* 4.3: resampling at positions i * speed_factor
SpeedChangeEffect(s, factor) ==
    [i \in 1..RoundDiv(Len(s), factor) |->
        s[Min((i - 1) * factor, Len(s) - 1) + 1]]

RECURSIVE EchoAt(_, _, _)
\* 4.4: output[n] = input[n] + feedback * output[n - delay], feedback 1/2
EchoAt(s, d, n) ==
    (IF n <= Len(s) THEN s[n] ELSE 0)
    + (IF n > d THEN EchoAt(s, d, n - d) \div 2 ELSE 0)

EchoEffect(s, d) ==
    IF s = <<>> THEN <<>>
    ELSE [n \in 1..(Len(s) + d) |-> EchoAt(s, d, n)]

Apply(eff, s, p) ==
    CASE eff = "robot" -> RobotEffect(s, p.value)
      [] eff = "pitch" -> PitchShiftEffect(s, p.value)
      [] eff = "speed" -> SpeedChangeEffect(s, p.value)
      [] eff = "echo" -> EchoEffect(s, p.value)

\* AudioProcessor.load_audio: the codec's load(path)
load_audio(f, p) ==
    IF Exists(f, p) /\ f[p.id].ok THEN f[p.id] ELSE NoContent

\* AudioProcessor.process_audio: decodes what it is handed, looks the
\* effect up, applies it; the result keeps the input's sample rate.
process_audio(f, h, sr, arg, eff, p) ==
    LET src == IF arg.kind = "path" THEN load_audio(f, arg)
               ELSE IF arg.kind = "buffer" /\ arg.id \in DOMAIN h
               THEN [ok |-> TRUE, samples |-> h[arg.id], sr |-> sr]
               ELSE NoContent
    IN IF src.ok /\ eff \in Registry
       THEN [ok |-> TRUE, samples |-> Apply(eff, src.samples, p),
             sr |-> src.sr]
       ELSE NoContent

\* ---------------------------------------------------------------- app.py
\* the selectbox offering an identifier the registry does not hold
EffectNames_Extra == {"robot", "pitch", "speed", "echo", "reverb"}

\* effect_names (select_effect_and_params)
EffectNames == {"robot", "pitch", "speed", "echo"}

\* the size check written with >= instead of >
TooLarge_OffByOne(file) == file.size >= MAX_FILE_SIZE

\* if uploaded_file.size > config.Config.MAX_FILE_SIZE
TooLarge(file) == file.size > MAX_FILE_SIZE

\* except (IOError, ValueError)
Caught == {"IOError", "ValueError"}

\* processing moved in front of loading and effect selection
StatementOrder_ProcessFirst ==
    <<"process", "alloc_output", "save_audio", "load", "display_original",
      "audio_input", "select_effect", "button", "plot_comparison",
      "audio_output", "download", "cleanup_output">>

\* the statements of main's try block and of process_and_display_audio,
\* in program order
StatementOrder ==
    <<"load", "display_original", "audio_input", "select_effect", "button",
      "process", "alloc_output", "save_audio", "plot_comparison",
      "audio_output", "download", "cleanup_output">>

After(p) ==
    LET i == CHOOSE k \in 1..Len(StatementOrder) : StatementOrder[k] = p
    IN IF i = Len(StatementOrder) THEN "finally" ELSE StatementOrder[i + 1]

\* the statements inside the inner try (with st.spinner)
InnerSteps ==
    {"process", "alloc_output", "save_audio", "plot_comparison",
     "audio_output", "download", "cleanup_output"}

Handler(p) == IF p \in InnerSteps THEN "except_inner" ELSE "except_outer"

\* context = { ... } in main
Context ==
    [input_path |-> input_path, selected_effect |-> selected_effect,
     original_audio |-> original_audio, sample_rate |-> sample_rate]

\* the call handing over the decoded buffer instead of the path
ProcessAudioArg_Buffer(context) == context.original_audio

\* audio_processor.process_audio(context['input_path'], ...)
ProcessAudioArg(context) == context.input_path

\* the comparison drawn at a hard-coded rate
ComparisonArgs_FixedRate(context, processed) ==
    [original |-> context.original_audio, processed |-> processed,
     sr |-> 2, title |-> context.selected_effect]

\* the comparison given the processed buffer on both sides
ComparisonArgs_Aliased(context, processed) ==
    [original |-> processed, processed |-> processed,
     sr |-> context.sample_rate, title |-> context.selected_effect]

\* plot_comprehensive_comparison(context['original_audio'],
\*     processed_audio, context['sample_rate'], f"{effect_name} Effect")
ComparisonArgs(context, processed) ==
    [original |-> context.original_audio, processed |-> processed,
     sr |-> context.sample_rate, title |-> context.selected_effect]

\* the finally clause deleting nothing
InputCleanupList_Empty(p) == <<>>

\* cleanup_temp_files([input_path]) in the finally clause
InputCleanupList(p) == <<p>>

\* raise e out of statement p: control goes to the enclosing handler
Raise(p, e) ==
    /\ pc' = Handler(p)
    /\ exc' = e

Init ==
    /\ pc = "start"
    /\ uploaded_file \in Uploads \cup {NoFile}
    /\ fs = <<>>
    /\ heap = <<>>
    /\ input_path = NoVal
    /\ original_audio = NoVal
    /\ sample_rate = 0
    /\ selected_effect = "none"
    /\ params = NoParams
    /\ processed_audio = NoVal
    /\ processed_sr = 0
    /\ output_path = NoVal
    /\ comparison = NoComparison
    /\ exc = "none"
    /\ escaped = "none"
    /\ errors = <<>>
    /\ log = <<>>

CheckUpload ==
    /\ pc = "start"
    /\ IF ~uploaded_file.present
       THEN pc' = "done" /\ errors' = errors
       ELSE IF TooLarge(uploaded_file)
       THEN pc' = "done" /\ errors' = Append(errors, "File too large")
       ELSE pc' = "save_upload" /\ errors' = errors
    /\ UNCHANGED <<uploaded_file, fs, heap, locals, exc, escaped, log>>

SaveUpload ==
    /\ pc = "save_upload"
    /\ \/ /\ fs' = save_uploaded_file(fs, uploaded_file)
          /\ input_path' = Path(FreshPath(fs))
          /\ log' = Append(log, Call("save_uploaded_file", NoVal, TRUE))
          /\ pc' = StatementOrder[1]
          /\ UNCHANGED escaped
       \/ \E e \in ExcTypes :
          /\ log' = Append(log, Call("save_uploaded_file", NoVal, FALSE))
          /\ pc' = "done"
          /\ escaped' = e
          /\ UNCHANGED <<fs, input_path>>
    /\ UNCHANGED <<uploaded_file, heap, original_audio, sample_rate,
                   selected_effect, params, processed_audio, processed_sr,
                   output_path, comparison, exc, errors>>

LoadAudio ==
    /\ pc = "load"
    /\ LET r == load_audio(fs, input_path)
       IN \/ /\ r.ok
             /\ heap' = Append(heap, r.samples)
             /\ original_audio' = Buffer(Len(heap) + 1)
             /\ sample_rate' = r.sr
             /\ log' = Append(log, Call("load_audio", input_path, TRUE))
             /\ pc' = After("load")
             /\ UNCHANGED exc
          \/ \E e \in ExcTypes :
             /\ log' = Append(log, Call("load_audio", input_path, FALSE))
             /\ Raise("load", e)
             /\ UNCHANGED <<heap, original_audio, sample_rate>>
    /\ UNCHANGED <<uploaded_file, fs, input_path, selected_effect,
                   params, processed_audio, processed_sr, output_path,
                   comparison, escaped, errors>>

\* display_original_audio_analysis: the three tabs.  A call of a name that
\* utils/visualization.py does not define is let through as a call of the
\* visualization collaborator and recorded in log under that name, here
\* and in PlotComparison.
OriginalPlots ==
    <<"plot_audio_waveform", "plot_frequency_spectrum", "plot_spectrogram">>

DisplayOriginal ==
    /\ pc = "display_original"
    /\ \/ /\ log' = log \o [i \in 1..3 |->
                              Call(OriginalPlots[i], original_audio, TRUE)]
          /\ pc' = After("display_original")
          /\ UNCHANGED exc
       \/ \E k \in 1..3, e \in ExcTypes :
          /\ log' = log \o [i \in 1..k |->
                              Call(OriginalPlots[i], original_audio, i < k)]
          /\ Raise("display_original", e)
    /\ UNCHANGED <<uploaded_file, fs, heap, locals, escaped, errors>>

AudioInput ==
    /\ pc = "audio_input"
    /\ \/ /\ log' = Append(log, Call("st.audio", input_path, TRUE))
          /\ pc' = After("audio_input")
          /\ UNCHANGED exc
       \/ \E e \in ExcTypes :
          /\ log' = Append(log, Call("st.audio", input_path, FALSE))
          /\ Raise("audio_input", e)
    /\ UNCHANGED <<uploaded_file, fs, heap, locals, escaped, errors>>

SelectEffect ==
    /\ pc = "select_effect"
    /\ \E eff \in EffectNames :
       /\ selected_effect' = eff
       /\ IF eff \in Registry
          THEN \/ /\ \E p \in ParamWidgets(eff) : params' = p
                  /\ log' = Append(log, Call("registry_lookup", NoVal, TRUE))
                  /\ pc' = After("select_effect")
                  /\ UNCHANGED exc
               \/ \E e \in ExcTypes :
                  /\ log' = Append(log, Call("registry_lookup", NoVal, TRUE))
                  /\ Raise("select_effect", e)
                  /\ UNCHANGED params
          ELSE /\ log' = Append(log, Call("registry_lookup", NoVal, FALSE))
               /\ Raise("select_effect", "KeyError")
               /\ UNCHANGED params
    /\ UNCHANGED <<uploaded_file, fs, heap, input_path, original_audio,
                   sample_rate, processed_audio, processed_sr, output_path,
                   comparison, escaped, errors>>

\* if st.button('Apply Effect')
Button ==
    /\ pc = "button"
    /\ \E pressed \in BOOLEAN :
       pc' = IF pressed THEN After("button") ELSE "finally"
    /\ UNCHANGED <<uploaded_file, fs, heap, locals, exc, escaped,
                   errors, log>>

ProcessAudio ==
    /\ pc = "process"
    /\ LET arg == ProcessAudioArg(Context)
           r == process_audio(fs, heap, sample_rate, arg,
                              Context.selected_effect, params)
       IN \/ /\ r.ok
             /\ heap' = Append(heap, r.samples)
             /\ processed_audio' = Buffer(Len(heap) + 1)
             /\ processed_sr' = r.sr
             /\ log' = Append(log, Call("process_audio", arg, TRUE))
             /\ pc' = After("process")
             /\ UNCHANGED exc
          \/ \E e \in ExcTypes :
             /\ log' = Append(log, Call("process_audio", arg, FALSE))
             /\ Raise("process", e)
             /\ UNCHANGED <<heap, processed_audio, processed_sr>>
    /\ UNCHANGED <<uploaded_file, fs, input_path, original_audio,
                   sample_rate, selected_effect, params, output_path,
                   comparison, escaped, errors>>

\* with tempfile.NamedTemporaryFile(suffix='.wav', delete=False)
AllocOutput ==
    /\ pc = "alloc_output"
    /\ \/ /\ fs' = (FreshPath(fs) :> NoContent) @@ fs
          /\ output_path' = Path(FreshPath(fs))
          /\ log' = Append(log, Call("NamedTemporaryFile",
                                     Path(FreshPath(fs)), TRUE))
          /\ pc' = After("alloc_output")
          /\ UNCHANGED exc
       \/ \E e \in ExcTypes :
          /\ log' = Append(log, Call("NamedTemporaryFile", NoVal, FALSE))
          /\ Raise("alloc_output", e)
          /\ UNCHANGED <<fs, output_path>>
    /\ UNCHANGED <<uploaded_file, heap, input_path, original_audio,
                   sample_rate, selected_effect, params, processed_audio,
                   processed_sr, comparison, escaped, errors>>

SaveAudio ==
    /\ pc = "save_audio"
    /\ \/ /\ processed_audio.kind = "buffer"
          /\ Exists(fs, output_path)
          /\ fs' = [fs EXCEPT ![output_path.id] =
                       [ok |-> TRUE, samples |-> heap[processed_audio.id],
                        sr |-> processed_sr]]
          /\ log' = Append(log, Call("save_audio", output_path, TRUE))
          /\ pc' = After("save_audio")
          /\ UNCHANGED exc
       \/ \E e \in ExcTypes :
          /\ log' = Append(log, Call("save_audio", output_path, FALSE))
          /\ Raise("save_audio", e)
          /\ UNCHANGED fs
    /\ UNCHANGED <<uploaded_file, heap, locals, escaped, errors>>

PlotComparison ==
    /\ pc = "plot_comparison"
    /\ LET a == ComparisonArgs(Context, processed_audio)
       IN \/ /\ comparison' = a
             /\ log' = Append(log, Call("plot_comprehensive_comparison",
                                        a.original, TRUE))
             /\ pc' = After("plot_comparison")
             /\ UNCHANGED exc
          \/ \E e \in ExcTypes :
             /\ log' = Append(log, Call("plot_comprehensive_comparison",
                                        a.original, FALSE))
             /\ Raise("plot_comparison", e)
             /\ UNCHANGED comparison
    /\ UNCHANGED <<uploaded_file, fs, heap, input_path, original_audio,
                   sample_rate, selected_effect, params, processed_audio,
                   processed_sr, output_path, escaped, errors>>

AudioOutput ==
    /\ pc = "audio_output"
    /\ \/ /\ Exists(fs, output_path)
          /\ log' = Append(log, Call("st.audio", output_path, TRUE))
          /\ pc' = After("audio_output")
          /\ UNCHANGED exc
       \/ \E e \in ExcTypes :
          /\ log' = Append(log, Call("st.audio", output_path, FALSE))
          /\ Raise("audio_output", e)
    /\ UNCHANGED <<uploaded_file, fs, heap, locals, escaped, errors>>

\* with open(output_path, 'rb') as f: st.download_button(...)
Download ==
    /\ pc = "download"
    /\ \/ /\ Exists(fs, output_path)
          /\ log' = Append(log, Call("open", output_path, TRUE))
          /\ pc' = After("download")
          /\ UNCHANGED exc
       \/ \E e \in ExcTypes :
          /\ log' = Append(log, Call("open", output_path, FALSE))
          /\ Raise("download", e)
    /\ UNCHANGED <<uploaded_file, fs, heap, locals, escaped, errors>>

\* cleanup_temp_files([output_path])
CleanupOutput ==
    /\ pc = "cleanup_output"
    /\ fs' = cleanup_temp_files(fs, <<output_path>>)
    /\ log' = Append(log, Call("cleanup_temp_files", output_path, TRUE))
    /\ pc' = After("cleanup_output")
    /\ UNCHANGED <<uploaded_file, heap, locals, exc, escaped, errors>>

\* except (IOError, ValueError) as ex: st.error(f'Processing error: ...')
InnerExcept ==
    /\ pc = "except_inner"
    /\ IF exc \in Caught
       THEN /\ errors' = Append(errors, "Processing error")
            /\ exc' = "none"
            /\ pc' = "finally"
       ELSE /\ pc' = "except_outer"
            /\ UNCHANGED <<errors, exc>>
    /\ UNCHANGED <<uploaded_file, fs, heap, locals, escaped, log>>

\* except (IOError, ValueError) as ex: st.error(f'Error: ...')
OuterExcept ==
    /\ pc = "except_outer"
    /\ IF exc \in Caught
       THEN /\ errors' = Append(errors, "Error")
            /\ exc' = "none"
       ELSE UNCHANGED <<errors, exc>>
    /\ pc' = "finally"
    /\ UNCHANGED <<uploaded_file, fs, heap, locals, escaped, log>>

\* finally: cleanup_temp_files([input_path]); a pending exception leaves main
Finally ==
    /\ pc = "finally"
    /\ fs' = cleanup_temp_files(fs, InputCleanupList(input_path))
    /\ log' = log \o [i \in 1..Len(InputCleanupList(input_path)) |->
                        Call("cleanup_temp_files",
                             InputCleanupList(input_path)[i], TRUE)]
    /\ escaped' = exc
    /\ exc' = "none"
    /\ pc' = "done"
    /\ UNCHANGED <<uploaded_file, heap, locals, errors>>

Next ==
    \/ CheckUpload
    \/ SaveUpload
    \/ LoadAudio
    \/ DisplayOriginal
    \/ AudioInput
    \/ SelectEffect
    \/ Button
    \/ ProcessAudio
    \/ AllocOutput
    \/ SaveAudio
    \/ PlotComparison
    \/ AudioOutput
    \/ Download
    \/ CleanupOutput
    \/ InnerExcept
    \/ OuterExcept
    \/ Finally

Spec == Init /\ [][Next]_vars

TypeOK ==
    /\ pc \in {"start", "save_upload", "finally", "except_inner",
               "except_outer", "done"} \cup {StatementOrder[i] :
                                              i \in 1..Len(StatementOrder)}
    /\ exc \in ExcTypes \cup {"none", "KeyError"}

\* ================================================================ claims
Calls(op) == {i \in 1..Len(log) : log[i].op = op}
Returned(op) == {i \in 1..Len(log) : log[i].op = op /\ log[i].ok}
Failed(op) == {i \in 1..Len(log) : log[i].op = op /\ ~log[i].ok}

\* C1: an upload larger than MAX_FILE_SIZE is rejected with the message
\* 'File too large' before save_uploaded_file, load_audio or process_audio
\* is called (no scratch file, no buffer); an upload of at most
\* MAX_FILE_SIZE bytes goes on to save_uploaded_file.
C1_SizeGuard ==
    /\ (uploaded_file.present /\ uploaded_file.size > MAX_FILE_SIZE) =>
          /\ pc \in {"start", "done"}
          /\ log = <<>> /\ fs = <<>> /\ heap = <<>>
          /\ pc = "done" => errors = <<"File too large">>
    /\ (uploaded_file.present /\ uploaded_file.size <= MAX_FILE_SIZE
        /\ pc # "start") =>
          \/ pc = "save_upload"
          \/ Len(log) >= 1 /\ log[1].op = "save_uploaded_file"

C1_Witness ==
    /\ uploaded_file.present
    /\ uploaded_file.size > MAX_FILE_SIZE
    /\ pc = "done"
    /\ errors = <<"File too large">>

\* C2: when load_audio, process_audio or save_audio raised during the run,
\* whatever the exception's type, main ends with the error shown through
\* st.error and with no exception leaving main.
C2_AllErrorsReported ==
    (pc = "done" /\ \E op \in {"load_audio", "process_audio", "save_audio"} :
                        Failed(op) # {}) =>
        escaped = "none" /\ errors # <<>>

C4_EffectIdInRange ==
    /\ selected_effect # "none" =>
          selected_effect \in {"robot", "pitch", "speed", "echo"}
    /\ Calls("process_audio") # {} =>
          Context.selected_effect \in {"robot", "pitch", "speed", "echo"}

C4_Witness ==
    /\ Returned("process_audio") # {}
    /\ selected_effect = "echo"

C6_OriginalUnmodified ==
    /\ (original_audio.kind = "buffer" /\ Exists(fs, input_path)) =>
          heap[original_audio.id] = fs[input_path.id].samples
    /\ comparison # NoComparison =>
          /\ comparison.original = original_audio
          /\ comparison.original.kind = "buffer"
          /\ comparison.processed.kind = "buffer"
          /\ comparison.processed # comparison.original

C6_Witness ==
    /\ comparison # NoComparison
    /\ Exists(fs, input_path)
    /\ heap[comparison.processed.id] # heap[comparison.original.id]

\* C7: process_audio is called only after load_audio returned and after
\* the registry lookup succeeded, save_audio only after process_audio
\* returned, and process_audio at most once in a run.
C7_OperationOrder ==
    /\ \A i \in Calls("process_audio") :
          \E j \in Returned("load_audio"), k \in Returned("registry_lookup") :
              j < k /\ k < i /\ log[j].arg = log[i].arg
    /\ \A i \in Calls("save_audio") :
          \E j \in Returned("process_audio") : j < i
    /\ Cardinality(Calls("process_audio")) <= 1

C7_Witness ==
    /\ Returned("save_audio") # {}
    /\ pc = "done"

InputCleanups ==
    {i \in Calls("cleanup_temp_files") : log[i].arg = input_path}

InputUses ==
    {i \in 1..Len(log) :
        /\ log[i].op \in {"load_audio", "st.audio", "process_audio"}
        /\ log[i].arg = input_path}

\* C8: once save_uploaded_file returned input_path, main ends with
\* cleanup_temp_files([input_path]) having run exactly once, whatever
\* happened in between, and never before a use of input_path.
C8_InputCleanedOnce ==
    /\ Cardinality(InputCleanups) <= 1
    /\ (pc = "done" /\ input_path.kind = "path") =>
          Cardinality(InputCleanups) = 1 /\ ~Exists(fs, input_path)
    /\ \A i \in InputCleanups, j \in InputUses : j < i
    /\ (pc # "done" /\ input_path.kind = "path") => Exists(fs, input_path)

C8_Witness ==
    /\ pc = "done"
    /\ input_path.kind = "path"
    /\ escaped = "ArithmeticError"
    /\ Calls("process_audio") # {}

\* C9: every scratch output file process_and_display_audio allocated is
\* gone when main ends.
C9_OutputDeleted ==
    (pc = "done" /\ output_path.kind = "path") => ~Exists(fs, output_path)

\* C10: every plotting function app.py imports from utils.visualization
\* and calls is one utils/visualization.py defines.
C10_PlotFunctionsDefined ==
    \A i \in 1..Len(log) :
        log[i].op \in Imported => log[i].op \in VisualizationDefs

====
